---- MODULE Spec2Model ----
(***************************************************************************)
(* Model of the human-in-the-loop email assistant                          *)
(* (src/src/email_assistant/email_assistant_hitl_memory_gmail.py).         *)
(*                                                                         *)
(* One workflow run over one envelope: triage_router, the notify-stage     *)
(* review (triage_interrupt_handler), the agent step (llm_call followed by *)
(* the conditional edge should_continue), the review gate                  *)
(* (interrupt_handler) and mark_as_read_node, together with the preference *)
(* store read and written by get_memory / update_memory.                   *)
(*                                                                         *)
(* interrupt() suspends the node that calls it.  When the reviewer's       *)
(* decision is delivered the node is run again from its first line, and    *)
(* the i-th interrupt() call of that run returns the i-th decision         *)
(* delivered so far for the node; the first call without a decision        *)
(* suspends again.  The state update of a suspended run is discarded, but  *)
(* the calls it made to tools and to the store have happened.              *)
(***************************************************************************)
EXTENDS Integers, Sequences, FiniteSets, TLC

\* ---------------------------------------------------------------- bounds
MaxBatch == 2      \* proposals per assistant message
MaxSteps == 2      \* agent steps (llm_call) per run
MaxCalls == 2      \* proposals per run, over all agent steps
MaxStoreCalls == 3 \* store calls, over all callers
NumClients == 2    \* workflow instances calling the store concurrently
MaxEmails == 3     \* emails handed to the ingest job

\* ------------------------------------------------------------- constants
\* the tool registry of the HITL workflow (line 20)
tools_by_name ==
    {"send_email_tool", "schedule_meeting_tool", "check_calendar_tool", "Question", "Done"}

\* (variant: the send tool is missing from the review list)
hitl_tools_without_send == {"schedule_meeting_tool", "Question"}

\* tools whose proposals are put to human review (line 263)
hitl_tools == {"send_email_tool", "schedule_meeting_tool", "Question"}

\* the classifier's outputs; "spam" stands for any value outside the schema
Classifications == {"respond", "notify", "ignore", "spam"}

\* kinds of review decision the human channel can deliver; "other" stands
\* for any kind outside accept / edit / ignore / response
DecisionTypes == {"accept", "edit", "ignore", "response", "other"}

\* argument values: the agent proposes ProposalArgs, the reviewer edits to EditArgs
ProposalArgs == {"a"}
EditArgs == {"a", "b"}
NoArgs == "none"

\* preference namespaces
TRIAGE == "triage_preferences"
RESPONSE == "response_preferences"
CAL == "cal_preferences"
Namespaces == {TRIAGE, RESPONSE, CAL}

\* stored profile values: no record, a record from an earlier run, a caller
\* default, a merge output
Absent == "absent"
Prior == "prior"
Default == "default"
Merged == "merged"

\* the profile texts callers pass as default_content, and the profile texts
\* the merge model can return as result.user_preferences
CallerDefaults == {"d1", "d2"}
MergeOutputs == {"", "m1"}

END == "__end__"
ERROR == "error"

VARIABLES
    node,            \* the node the run is at (END, ERROR when finished)
    classification,  \* state["classification_decision"], "unset" before triage
    messages,        \* state["messages"]
    resumes,         \* decisions delivered so far to the node being run
    pending,         \* TRUE while an interrupt waits for the reviewer
    request,         \* the action_request under review: [action, args, id]
    store,           \* the preference store, namespace -> profile
    storeWrites,     \* every store.put so far: [ns, op, id, old, value]
    execLog,         \* every tool.invoke so far: [id, name, args]
    reviewLog,       \* every review request with its decision:
                     \*   [id, action, proposed, type, args]
    markCount,       \* calls of mark_as_read
    steps,           \* llm_call runs so far
    nextId,          \* next fresh call id
    routeLog,        \* for each assistant message, its first proposal as emitted and
                     \*   what should_continue returned: [mid, first, route]
    routerResult,    \* result.classification as returned by llm_router ("none" before)
    calls,           \* store calls made one after the other: [op, ns, arg, ret, before, after]
    clients,         \* store calls in progress in concurrent workflow instances
    threads,         \* the LangGraph threads of the server
    runs,            \* the runs of the server
    provider         \* "up": mail and calendar calls succeed; "flaky": they can fail

\* the variables of one workflow run that is not the store
runVars == <<node, classification, messages, resumes, pending, request, execLog, reviewLog,
             markCount, steps, nextId, routeLog, routerResult, provider>>

\* the variables no step of a workflow run changes: those of the
\* specifications of the store calls and of the ingest job, and the providers
auxVars == <<calls, clients, threads, runs, provider>>

vars == <<node, classification, messages, resumes, pending, request, store,
          storeWrites, execLog, reviewLog, markCount, steps, nextId, routeLog,
          routerResult, calls, clients, threads, runs, provider>>

\* ------------------------------------------------------------- messages
UserMsg(content) ==
    [role |-> "user", content |-> content, mid |-> 0, tool_call_id |-> 0, tool_calls |-> <<>>]

ToolMsg(content, id) ==
    [role |-> "tool", content |-> content, mid |-> 0, tool_call_id |-> id, tool_calls |-> <<>>]

AIMsg(mid, tcs) ==
    [role |-> "ai", content |-> "", mid |-> mid, tool_call_id |-> 0, tool_calls |-> tcs]

\* the add_messages reducer of State.messages: a message whose id is already
\* in the list replaces that message in place, any other message is appended
RECURSIVE add_messages(_, _)
add_messages(left, right) ==
    IF right = <<>> THEN left
    ELSE LET m == Head(right)
             hit == {i \in 1..Len(left) : m.mid # 0 /\ left[i].mid = m.mid}
         IN  IF hit = {}
             THEN add_messages(Append(left, m), Tail(right))
             ELSE add_messages([i \in 1..Len(left) |-> IF i \in hit THEN m ELSE left[i]],
                               Tail(right))

\* ------------------------------------------------------ preference store
\* a memory state is the store together with the log of its writes
Mem(st, wr) == [store |-> st, writes |-> wr]

\* a store.put of value under namespace ns, made on behalf of proposal id
\* (0: by no proposal); the log keeps the value that was replaced
put(m, ns, value, op, id) ==
    Mem([m.store EXCEPT ![ns] = value],
        Append(m.writes,
               [ns |-> ns, op |-> op, id |-> id, old |-> m.store[ns], value |-> value]))

\* (variant: the default is stored whether or not a record exists)
get_memory_always_puts(m, ns, default_content) == put(m, ns, default_content, "default", 0)

\* the store after get_memory(store, namespace, default_content)
get_memory(m, ns, default_content) ==
    IF m.store[ns] # Absent
    THEN m
    ELSE put(m, ns, default_content, "default", 0)

\* (variant: the caller's default is returned although a record exists)
get_memory_value_prefers_default(m, ns, default_content) == default_content

\* the value get_memory returns
get_memory_value(m, ns, default_content) ==
    IF m.store[ns] # Absent
    THEN m.store[ns]
    ELSE default_content

\* update_memory reads user_preferences.value: it needs the record to exist
update_memory_ok(m, ns) == m.store[ns] # Absent

\* (variant: the merge result is stored only over a default, a merged
\* profile is kept)
update_memory_keeps_merged(m, ns, id, result) ==
    IF m.store[ns] \in MergeOutputs THEN m ELSE put(m, ns, result, "merge", id)

\* result is result.user_preferences, the profile the merge model returned
update_memory(m, ns, id, result) == put(m, ns, result, "merge", id)

\* ----------------------------------------------------------- review gate
Last(s) == s[Len(s)]

ToolCall(name, args, id) == [name |-> name, args |-> args, id |-> id]

NoRequest == [action |-> "", args |-> NoArgs, id |-> 0]

\* the tools whose provider call can be failing while a node runs: the tool
\* catches the error and returns a failure text (gmail_tools.py lines
\* 619-631 and 920-934)
ProviderFailures ==
    IF provider = "flaky"
    THEN SUBSET {"send_email_tool", "schedule_meeting_tool"}
    ELSE {{}}

\* the working state of one run of interrupt_handler:
\*   msgs, res  state["messages"] and the decisions delivered so far (inputs)
\*   down       the tools whose provider fails during the run (input)
\*   result     the messages collected for the state update
\*   goto       the next node
\*   execs, mem the tool invocations and the store, as changed by the run
\*   status     "run", "done", "interrupt" (suspended at req) or ERROR (raised)
GateStart(msgs, res, execs, mem, down) ==
    [msgs |-> msgs, res |-> res, down |-> down, result |-> <<>>, goto |-> "llm_call",
     execs |-> execs, mem |-> mem, status |-> "run", req |-> NoRequest]

\* tool = tools_by_name[name]; observation = tool.invoke(args);
\* result.append({"role": "tool", "content": observation, "tool_call_id": id})
invoke(acc, tc, args) ==
    IF tc.name \notin tools_by_name
    THEN [acc EXCEPT !.status = ERROR]
    ELSE LET ok == tc.name \notin acc.down
         IN  [acc EXCEPT !.execs = Append(@, [id |-> tc.id, name |-> tc.name, args |-> args,
                                              ok |-> ok]),
                         !.result = Append(@, ToolMsg(IF ok THEN "observation" ELSE "failed",
                                                      tc.id))]

\* a call of update_memory made by the gate while it handles proposal id
gate_update_memory(acc, ns, id) ==
    IF acc.status = ERROR THEN acc
    ELSE IF update_memory_ok(acc.mem, ns)
    THEN [acc EXCEPT !.mem = update_memory(@, ns, id, Merged)]
    ELSE [acc EXCEPT !.status = ERROR]

\* (variant: the accepted action is run, its result is not recorded)
on_accept_drops_result(acc, tc) == [invoke(acc, tc, tc.args) EXCEPT !.result = acc.result]

on_accept(acc, tc) == invoke(acc, tc, tc.args)

\* (variant: the edited proposal is run with the arguments first proposed)
on_edit_runs_original(acc, tc, response) ==
    LET ai == Last(acc.msgs)
        edited_args == response.args
        updated_tool_calls ==
            SelectSeq(ai.tool_calls, LAMBDA t : t.id # tc.id)
                \o <<ToolCall(tc.name, edited_args, tc.id)>>
        a1 == [acc EXCEPT !.result = Append(@, [ai EXCEPT !.tool_calls = updated_tool_calls])]
    IN  IF tc.name = "send_email_tool"
        THEN gate_update_memory(invoke(a1, tc, tc.args), RESPONSE, tc.id)
        ELSE IF tc.name = "schedule_meeting_tool"
        THEN gate_update_memory(invoke(a1, tc, tc.args), CAL, tc.id)
        ELSE [a1 EXCEPT !.status = ERROR]

on_edit(acc, tc, response) ==
    LET ai == Last(acc.msgs)
        edited_args == response.args
        updated_tool_calls ==
            SelectSeq(ai.tool_calls, LAMBDA t : t.id # tc.id)
                \o <<ToolCall(tc.name, edited_args, tc.id)>>
        a1 == [acc EXCEPT !.result = Append(@, [ai EXCEPT !.tool_calls = updated_tool_calls])]
    IN  IF tc.name = "send_email_tool"
        THEN gate_update_memory(invoke(a1, tc, edited_args), RESPONSE, tc.id)
        ELSE IF tc.name = "schedule_meeting_tool"
        THEN gate_update_memory(invoke(a1, tc, edited_args), CAL, tc.id)
        ELSE [a1 EXCEPT !.status = ERROR]

\* (variant: an ignored proposal leaves the next node as it was)
on_ignore_keeps_route(acc, tc) ==
    IF tc.name \in {"send_email_tool", "schedule_meeting_tool", "Question"}
    THEN gate_update_memory(
             [acc EXCEPT !.result = Append(@, ToolMsg("ignored", tc.id))],
             TRIAGE, tc.id)
    ELSE [acc EXCEPT !.status = ERROR]

on_ignore(acc, tc) ==
    IF tc.name \in {"send_email_tool", "schedule_meeting_tool", "Question"}
    THEN gate_update_memory(
             [acc EXCEPT !.result = Append(@, ToolMsg("ignored", tc.id)), !.goto = END],
             TRIAGE, tc.id)
    ELSE [acc EXCEPT !.status = ERROR]

\* (variant: feedback on a send proposal is merged into the triage profile)
on_response_merges_triage(acc, tc) ==
    IF tc.name = "send_email_tool"
    THEN gate_update_memory([acc EXCEPT !.result = Append(@, ToolMsg("feedback", tc.id))],
                            TRIAGE, tc.id)
    ELSE IF tc.name = "schedule_meeting_tool"
    THEN gate_update_memory([acc EXCEPT !.result = Append(@, ToolMsg("feedback", tc.id))],
                            CAL, tc.id)
    ELSE IF tc.name = "Question"
    THEN [acc EXCEPT !.result = Append(@, ToolMsg("feedback", tc.id))]
    ELSE [acc EXCEPT !.status = ERROR]

\* (variant: feedback on a Question ends the run)
on_response_ends_run(acc, tc) ==
    IF tc.name = "send_email_tool"
    THEN gate_update_memory([acc EXCEPT !.result = Append(@, ToolMsg("feedback", tc.id))],
                            RESPONSE, tc.id)
    ELSE IF tc.name = "schedule_meeting_tool"
    THEN gate_update_memory([acc EXCEPT !.result = Append(@, ToolMsg("feedback", tc.id))],
                            CAL, tc.id)
    ELSE IF tc.name = "Question"
    THEN [acc EXCEPT !.result = Append(@, ToolMsg("feedback", tc.id)), !.goto = END]
    ELSE [acc EXCEPT !.status = ERROR]

on_response(acc, tc) ==
    IF tc.name = "send_email_tool"
    THEN gate_update_memory([acc EXCEPT !.result = Append(@, ToolMsg("feedback", tc.id))],
                            RESPONSE, tc.id)
    ELSE IF tc.name = "schedule_meeting_tool"
    THEN gate_update_memory([acc EXCEPT !.result = Append(@, ToolMsg("feedback", tc.id))],
                            CAL, tc.id)
    ELSE IF tc.name = "Question"
    THEN [acc EXCEPT !.result = Append(@, ToolMsg("feedback", tc.id))]
    ELSE [acc EXCEPT !.status = ERROR]

\* the if / elif chain on response["type"]; it has no final else
handle_response(acc, tc, response) ==
    IF response.type = "accept" THEN on_accept(acc, tc)
    ELSE IF response.type = "edit" THEN on_edit(acc, tc, response)
    ELSE IF response.type = "ignore" THEN on_ignore(acc, tc)
    ELSE IF response.type = "response" THEN on_response(acc, tc)
    ELSE acc

\* the for loop over state["messages"][-1].tool_calls, at proposal k, with j
\* interrupt() calls already made in this run of the node
RECURSIVE tool_call_loop(_, _, _)
\* (variant: the loop returns after its first iteration, as the loop of
\* should_continue does)
tool_call_loop_returns_after_first(acc, k, j) ==
    LET tcs == Last(acc.msgs).tool_calls
    IN  IF acc.status = ERROR THEN acc
        ELSE IF k > 1 \/ k > Len(tcs) THEN [acc EXCEPT !.status = "done"]
        ELSE LET tc == tcs[k]
             IN  IF tc.name \notin hitl_tools
                 THEN tool_call_loop(invoke(acc, tc, tc.args), k + 1, j)
                 ELSE IF j >= Len(acc.res)
                 THEN [acc EXCEPT !.status = "interrupt",
                                  !.req = [action |-> tc.name, args |-> tc.args, id |-> tc.id]]
                 ELSE tool_call_loop(handle_response(acc, tc, acc.res[j + 1]), k + 1, j + 1)

tool_call_loop(acc, k, j) ==
    LET tcs == Last(acc.msgs).tool_calls
    IN  IF acc.status = ERROR THEN acc
        ELSE IF k > Len(tcs) THEN [acc EXCEPT !.status = "done"]
        ELSE LET tc == tcs[k]
             IN  IF tc.name \notin hitl_tools
                 THEN tool_call_loop(invoke(acc, tc, tc.args), k + 1, j)
                 ELSE IF j >= Len(acc.res)
                 THEN [acc EXCEPT !.status = "interrupt",
                                  !.req = [action |-> tc.name, args |-> tc.args, id |-> tc.id]]
                 ELSE tool_call_loop(handle_response(acc, tc, acc.res[j + 1]), k + 1, j + 1)

interrupt_handler ==
    /\ node = "interrupt_handler"
    /\ ~pending
    /\ \E down \in ProviderFailures :
       LET out == tool_call_loop(
                      GateStart(messages, resumes, execLog, Mem(store, storeWrites), down), 1, 0)
       IN  /\ execLog' = out.execs
           /\ store' = out.mem.store
           /\ storeWrites' = out.mem.writes
           /\ IF out.status = "interrupt"
              THEN /\ pending' = TRUE
                   /\ request' = out.req
                   /\ UNCHANGED <<node, messages, resumes>>
              ELSE IF out.status = "done"
              THEN /\ messages' = add_messages(messages, out.result)
                   /\ node' = out.goto
                   /\ resumes' = <<>>
                   /\ UNCHANGED <<pending, request>>
              ELSE /\ node' = ERROR
                   /\ UNCHANGED <<messages, resumes, pending, request>>
    /\ UNCHANGED <<classification, reviewLog, markCount, steps, nextId, routeLog, routerResult>>
    /\ UNCHANGED auxVars

\* ------------------------------------------------------------ agent step
\* (variant: the edge of the workflow without review, email_assistant.py
\* lines 60-69: a Done proposal ends the run without mark_as_read_node)
should_continue_ends_on_done(msgs) ==
    LET last_message == Last(msgs)
    IN  IF last_message.tool_calls # <<>>
        THEN IF last_message.tool_calls[1].name = "Done"
             THEN END
             ELSE "interrupt_handler"
        ELSE "none"

\* (variant: every batch is routed to the review gate)
should_continue_always_gate(msgs) ==
    LET last_message == Last(msgs)
    IN  IF last_message.tool_calls # <<>>
        THEN "interrupt_handler"
        ELSE "none"

\* the conditional edge after llm_call: it returns inside the first
\* iteration of its loop over the tool calls
should_continue(msgs) ==
    LET last_message == Last(msgs)
    IN  IF last_message.tool_calls # <<>>
        THEN IF last_message.tool_calls[1].name = "Done"
             THEN "mark_as_read_node"
             ELSE "interrupt_handler"
        ELSE "none"

\* the assistant messages the model can produce: 1..MaxBatch proposals over
\* the bound tools, with fresh call ids first, first+1, ...
Batches(first) ==
    UNION {
        { [k \in 1..n |-> ToolCall(names[k], args[k], first + k - 1)] :
            names \in [1..n -> tools_by_name], args \in [1..n -> ProposalArgs] }
        : n \in 1..MaxBatch }

llm_call ==
    /\ node = "llm_call"
    /\ steps < MaxSteps
    /\ \E tcs \in Batches(nextId) :
        /\ nextId + Len(tcs) - 1 <= MaxCalls
        /\ LET m == get_memory(get_memory(Mem(store, storeWrites), CAL, Default), RESPONSE, Default)
               msgs == add_messages(messages, <<AIMsg(steps + 1, tcs)>>)
               route == should_continue(msgs)
           IN  /\ store' = m.store
               /\ storeWrites' = m.writes
               /\ messages' = msgs
               /\ node' = route
               /\ routeLog' = Append(routeLog,
                      [mid |-> steps + 1, first |-> tcs[1].name, route |-> route])
        /\ nextId' = nextId + Len(tcs)
    /\ steps' = steps + 1
    /\ UNCHANGED <<classification, resumes, pending, request, execLog, reviewLog, markCount,
                   routerResult>>
    /\ UNCHANGED auxVars

mark_as_read_node ==
    /\ node = "mark_as_read_node"
    /\ markCount' = markCount + 1
    /\ node' = END
    /\ UNCHANGED <<classification, messages, resumes, pending, request, store, storeWrites,
                   execLog, reviewLog, steps, nextId, routeLog, routerResult>>
    /\ UNCHANGED auxVars

\* ----------------------------------------------------------------- triage
\* (variant: the ignore branch does not record the classification)
triage_decision_ignore_unrecorded(c, current) ==
    IF c = "respond"
    THEN [goto |-> "llm_call", classification |-> c, update |-> <<UserMsg("respond_to_email")>>]
    ELSE IF c = "ignore"
    THEN [goto |-> END, classification |-> current, update |-> <<>>]
    ELSE IF c = "notify"
    THEN [goto |-> "triage_interrupt_handler", classification |-> c, update |-> <<>>]
    ELSE [goto |-> ERROR, classification |-> current, update |-> <<>>]

\* (variant: an email classified ignore is marked as read)
triage_decision_ignore_marks_read(c, current) ==
    IF c = "respond"
    THEN [goto |-> "llm_call", classification |-> c, update |-> <<UserMsg("respond_to_email")>>]
    ELSE IF c = "ignore"
    THEN [goto |-> "mark_as_read_node", classification |-> c, update |-> <<>>]
    ELSE IF c = "notify"
    THEN [goto |-> "triage_interrupt_handler", classification |-> c, update |-> <<>>]
    ELSE [goto |-> ERROR, classification |-> current, update |-> <<>>]

\* (variant: an unknown classification is treated as ignore)
triage_decision_defaults_to_ignore(c, current) ==
    IF c = "respond"
    THEN [goto |-> "llm_call", classification |-> c, update |-> <<UserMsg("respond_to_email")>>]
    ELSE IF c = "notify"
    THEN [goto |-> "triage_interrupt_handler", classification |-> c, update |-> <<>>]
    ELSE [goto |-> END, classification |-> "ignore", update |-> <<>>]

\* the if / elif chain on the classification c returned by the router model:
\* the next node, the classification_decision of the state (current: the
\* value it had) and the messages of the update; the else branch raises
triage_decision(c, current) ==
    IF c = "respond"
    THEN [goto |-> "llm_call", classification |-> c, update |-> <<UserMsg("respond_to_email")>>]
    ELSE IF c = "ignore"
    THEN [goto |-> END, classification |-> c, update |-> <<>>]
    ELSE IF c = "notify"
    THEN [goto |-> "triage_interrupt_handler", classification |-> c, update |-> <<>>]
    ELSE [goto |-> ERROR, classification |-> current, update |-> <<>>]

triage_router ==
    /\ node = "triage_router"
    /\ LET m == get_memory(Mem(store, storeWrites), TRIAGE, Default)
       IN  /\ store' = m.store
           /\ storeWrites' = m.writes
    /\ \E c \in Classifications :
         LET d == triage_decision(c, classification)
         IN  /\ routerResult' = c
             /\ node' = d.goto
             /\ classification' = d.classification
             /\ messages' = add_messages(messages, d.update)
    /\ UNCHANGED <<resumes, pending, request, execLog, reviewLog, markCount, steps, nextId,
                   routeLog>>
    /\ UNCHANGED auxVars

\* (variant: feedback at the notify stage re-classifies the email as respond)
triage_review_update_reclassifies(current, response) ==
    IF response.type = "response" THEN "respond" ELSE current

\* the classification_decision after the notify-stage review: the update of
\* triage_interrupt_handler holds messages only
triage_review_update(current, response) == current

\* (variant: an ignored notification is handed to the agent)
triage_review_goto_always_agent(response) ==
    IF response.type \in {"response", "ignore"} THEN "llm_call" ELSE ERROR

\* the next node after the notify-stage review; any other decision raises
triage_review_goto(response) ==
    IF response.type = "response" THEN "llm_call"
    ELSE IF response.type = "ignore" THEN END
    ELSE ERROR

triage_interrupt_handler ==
    /\ node = "triage_interrupt_handler"
    /\ ~pending
    /\ IF resumes = <<>>
       THEN /\ pending' = TRUE
            /\ request' = [action |-> "Email Assistant", args |-> NoArgs, id |-> 0]
            /\ UNCHANGED <<node, classification, messages, resumes, store, storeWrites>>
       ELSE LET response == resumes[1]
                m == Mem(store, storeWrites)
                goto == triage_review_goto(response)
            IN  IF goto # ERROR /\ update_memory_ok(m, TRIAGE)
                THEN /\ store' = update_memory(m, TRIAGE, 0, Merged).store
                     /\ storeWrites' = update_memory(m, TRIAGE, 0, Merged).writes
                     /\ node' = goto
                     /\ classification' = triage_review_update(classification, response)
                     /\ messages' = add_messages(messages,
                            <<UserMsg("notify_email"),
                              UserMsg(IF response.type = "response"
                                      THEN "feedback" ELSE "ignored")>>)
                     /\ resumes' = <<>>
                     /\ UNCHANGED <<pending, request>>
                ELSE /\ node' = ERROR
                     /\ UNCHANGED <<classification, messages, resumes, pending, request, store,
                                    storeWrites>>
    /\ UNCHANGED <<execLog, reviewLog, markCount, steps, nextId, routeLog, routerResult>>
    /\ UNCHANGED auxVars

\* --------------------------------------------------------------- reviewer
\* the decisions the human review channel can return for a request
Decisions ==
    { [type |-> t, args |-> NoArgs] : t \in DecisionTypes \ {"edit"} }
        \cup { [type |-> "edit", args |-> a] : a \in EditArgs }

\* Command(resume=[decision]): the decision is recorded for the suspended
\* node, which is then run again
resume ==
    /\ pending
    /\ \E d \in Decisions :
        /\ resumes' = Append(resumes, d)
        /\ reviewLog' = Append(reviewLog,
               [id |-> request.id, action |-> request.action, proposed |-> request.args,
                type |-> d.type, args |-> d.args])
    /\ pending' = FALSE
    /\ request' = NoRequest
    /\ UNCHANGED <<node, classification, messages, store, storeWrites, execLog, markCount,
                   steps, nextId, routeLog, routerResult>>
    /\ UNCHANGED auxVars

\* ---------------------------------------------------------- specification
\* the store a run can find: empty, or left by earlier runs, which create the
\* triage record first (triage_router) and the two others together (llm_call)
StoresAtStart ==
    { st \in [Namespaces -> {Absent, Prior}] :
        /\ st[RESPONSE] = st[CAL]
        /\ st[TRIAGE] = Absent => st[RESPONSE] = Absent }

\* a run that has not started
InitWorkflow ==
    /\ node = "triage_router"
    /\ classification = "unset"
    /\ messages = <<>>
    /\ resumes = <<>>
    /\ pending = FALSE
    /\ request = NoRequest
    /\ execLog = <<>>
    /\ reviewLog = <<>>
    /\ markCount = 0
    /\ steps = 0
    /\ nextId = 1
    /\ routeLog = <<>>
    /\ routerResult = "none"

\* a run that has not started, with providers that work
InitRun ==
    /\ InitWorkflow
    /\ provider = "up"

\* no store call made or in progress outside the run, no server state
InitAux ==
    /\ calls = <<>>
    /\ clients = <<>>
    /\ threads = {}
    /\ runs = <<>>

Init ==
    /\ InitRun
    /\ InitAux
    /\ store \in StoresAtStart
    /\ storeWrites = <<>>

Next ==
    \/ triage_router
    \/ triage_interrupt_handler
    \/ llm_call
    \/ interrupt_handler
    \/ mark_as_read_node
    \/ resume

Spec == Init /\ [][Next]_vars

\* the reviewer answers the request that is pending, and the runtime runs
\* mark_as_read_node when the run is at it
Fairness ==
    /\ WF_vars(resume)
    /\ WF_vars(mark_as_read_node)

FairSpec == Init /\ [][Next]_vars /\ Fairness

\* ------------------------------------------------ a run with failing providers
\* a run over a store that earlier runs have filled, in which each call of
\* the mail or the calendar provider can fail
InitProvider ==
    /\ InitWorkflow
    /\ InitAux
    /\ provider = "flaky"
    /\ store = [ns \in Namespaces |-> Prior]
    /\ storeWrites = <<>>

SpecProvider == InitProvider /\ [][Next]_vars

\* ------------------------------------------- store calls, one after another
\* get_memory(store, ns, default_content), called on its own
mem_get_memory ==
    /\ Len(calls) < MaxStoreCalls
    /\ \E ns \in Namespaces, default_content \in CallerDefaults :
         LET m == Mem(store, storeWrites)
             m2 == get_memory(m, ns, default_content)
         IN  /\ store' = m2.store
             /\ storeWrites' = m2.writes
             /\ calls' = Append(calls,
                    [op |-> "get", ns |-> ns, arg |-> default_content,
                     ret |-> get_memory_value(m, ns, default_content),
                     before |-> store[ns], after |-> m2.store[ns]])
    /\ UNCHANGED <<runVars, clients, threads, runs>>

\* update_memory(store, ns, messages), called on its own; the merge model
\* returns result; without a record the call raises and writes nothing
mem_update_memory ==
    /\ Len(calls) < MaxStoreCalls
    /\ \E ns \in Namespaces, result \in MergeOutputs :
         LET m == Mem(store, storeWrites)
             m2 == IF update_memory_ok(m, ns) THEN update_memory(m, ns, 0, result) ELSE m
         IN  /\ store' = m2.store
             /\ storeWrites' = m2.writes
             /\ calls' = Append(calls,
                    [op |-> "update", ns |-> ns, arg |-> result,
                     ret |-> IF update_memory_ok(m, ns) THEN "None" ELSE ERROR,
                     before |-> store[ns], after |-> m2.store[ns]])
    /\ UNCHANGED <<runVars, clients, threads, runs>>

InitMem ==
    /\ InitRun
    /\ InitAux
    /\ store = [ns \in Namespaces |-> Absent]
    /\ storeWrites = <<>>

NextMem ==
    \/ mem_get_memory
    \/ mem_update_memory

SpecMem == InitMem /\ [][NextMem]_vars

\* ------------------------------------ store calls of concurrent instances
\* each instance makes its store calls one at a time; a call is a store.get
\* followed, for get_memory without a record and for update_memory, by a
\* store.put; calls of other instances run in between
Clients == 1..NumClients

IdleClient(n) == [pc |-> "idle", ns |-> TRIAGE, arg |-> "", done |-> n]

\* the store calls started so far by the instances of S
RECURSIVE Started(_)
Started(S) ==
    IF S = {} THEN 0
    ELSE LET c == CHOOSE x \in S : TRUE
         IN  clients[c].done + (IF clients[c].pc = "idle" THEN 0 ELSE 1) + Started(S \ {c})

\* get_memory, lines 43-47: store.get; with a record the call returns
client_get_memory_get(c) ==
    /\ clients[c].pc = "idle"
    /\ Started(Clients) < MaxStoreCalls
    /\ \E ns \in Namespaces, default_content \in CallerDefaults :
         clients' = [clients EXCEPT ![c] =
             IF store[ns] # Absent
             THEN IdleClient(clients[c].done + 1)
             ELSE [pc |-> "get_put", ns |-> ns, arg |-> default_content, done |-> @.done]]
    /\ UNCHANGED <<store, storeWrites, runVars, calls, threads, runs>>

\* get_memory, lines 50-53: store.put of the default
client_get_memory_put(c) ==
    /\ clients[c].pc = "get_put"
    /\ LET m == put(Mem(store, storeWrites), clients[c].ns, clients[c].arg, "default", c)
       IN  /\ store' = m.store
           /\ storeWrites' = m.writes
    /\ clients' = [clients EXCEPT ![c] = IdleClient(@.done + 1)]
    /\ UNCHANGED <<runVars, calls, threads, runs>>

\* update_memory, lines 68-75: store.get and the call of the merge model,
\* which raises when there is no record
client_update_memory_get(c) ==
    /\ clients[c].pc = "idle"
    /\ Started(Clients) < MaxStoreCalls
    /\ \E ns \in Namespaces, result \in MergeOutputs :
         clients' = [clients EXCEPT ![c] =
             IF update_memory_ok(Mem(store, storeWrites), ns)
             THEN [pc |-> "update_put", ns |-> ns, arg |-> result, done |-> @.done]
             ELSE IdleClient(clients[c].done + 1)]
    /\ UNCHANGED <<store, storeWrites, runVars, calls, threads, runs>>

\* update_memory, line 77: store.put of the merge result
client_update_memory_put(c) ==
    /\ clients[c].pc = "update_put"
    /\ LET m == update_memory(Mem(store, storeWrites), clients[c].ns, c, clients[c].arg)
       IN  /\ store' = m.store
           /\ storeWrites' = m.writes
    /\ clients' = [clients EXCEPT ![c] = IdleClient(@.done + 1)]
    /\ UNCHANGED <<runVars, calls, threads, runs>>

InitStore ==
    /\ InitRun
    /\ calls = <<>>
    /\ threads = {}
    /\ runs = <<>>
    /\ clients = [c \in Clients |-> IdleClient(0)]
    /\ store = [ns \in Namespaces |-> Absent]
    /\ storeWrites = <<>>

NextStore ==
    \E c \in Clients :
        \/ client_get_memory_get(c)
        \/ client_get_memory_put(c)
        \/ client_update_memory_get(c)
        \/ client_update_memory_put(c)

SpecStore == InitStore /\ [][NextStore]_vars

\* ------------------------------------------------------------- ingest job
\* (src/src/email_assistant/tools/gmail/run_ingest.py)
\* the Gmail threads the fetched emails belong to
GmailThreads == {"t1", "t2"}

\* (variant: every email is filed under one LangGraph thread)
langgraph_thread_id_constant(raw_thread_id) == <<"uuid", "md5", "">>

\* thread_id = str(uuid.UUID(hex=hashlib.md5(raw_thread_id).hexdigest())):
\* the same Gmail thread gives the same id, different threads different ids
langgraph_thread_id(raw_thread_id) == <<"uuid", "md5", raw_thread_id>>

ThreadIds == { langgraph_thread_id(t) : t \in GmailThreads } \cup {langgraph_thread_id_constant("")}

\* a thread of the server: whether it exists, metadata["email_id"], the
\* email_input of its state, and the run whose review request is pending (0: none)
NoThread == [exists |-> FALSE, email_id |-> 0, email_input |-> 0, interrupt |-> 0]

\* runs that client.runs.list(thread_id) returns
RunsOf(thread_id) ==
    { r \in DOMAIN runs : runs[r].thread = thread_id
                            /\ runs[r].status \notin {"deleted", "rolled_back"} }

\* ingest_email_to_langgraph for the next email, of Gmail thread
\* raw_thread_id: get or create the thread, delete the earlier runs of the
\* thread (a failed deletion is caught and skipped), set the metadata,
\* create a run with multitask_strategy "rollback"
ingest_email_to_langgraph ==
    /\ Len(runs) < MaxEmails
    /\ \E raw_thread_id \in GmailThreads :
       \E deleted \in SUBSET (IF threads[langgraph_thread_id(raw_thread_id)].exists
                               THEN RunsOf(langgraph_thread_id(raw_thread_id)) ELSE {}) :
         LET email == Len(runs) + 1
             thread_id == langgraph_thread_id(raw_thread_id)
             after_delete == [r \in DOMAIN runs |->
                                 IF r \in deleted THEN [runs[r] EXCEPT !.status = "deleted"]
                                 ELSE runs[r]]
             after_rollback == [r \in DOMAIN runs |->
                                 IF after_delete[r].thread = thread_id
                                      /\ after_delete[r].status = "pending"
                                 THEN [after_delete[r] EXCEPT !.status = "rolled_back"]
                                 ELSE after_delete[r]]
         IN  /\ runs' = Append(after_rollback,
                    [email |-> email, gmail_thread |-> raw_thread_id, thread |-> thread_id,
                     status |-> "pending"])
             /\ threads' = [threads EXCEPT ![thread_id] =
                    [@ EXCEPT !.exists = TRUE, !.email_id = email]]
    /\ UNCHANGED <<runVars, store, storeWrites, calls, clients>>

\* the server executes a created run on its thread, from the start of the
\* graph with the run's input: it ends, or suspends at a review request
run_execute ==
    \E r \in DOMAIN runs :
        /\ runs[r].status = "pending"
        /\ \E outcome \in {"interrupted", "success"} :
            /\ runs' = [runs EXCEPT ![r].status = outcome]
            /\ threads' = [threads EXCEPT ![runs[r].thread] =
                   [@ EXCEPT !.email_input = runs[r].email,
                             !.interrupt = IF outcome = "interrupted" THEN r ELSE 0]]
        /\ UNCHANGED <<runVars, store, storeWrites, calls, clients>>

\* the reviewer answers the review request pending on a thread
run_resume ==
    \E r \in DOMAIN runs :
        /\ runs[r].status = "interrupted"
        /\ threads[runs[r].thread].interrupt = r
        /\ runs' = [runs EXCEPT ![r].status = "success"]
        /\ threads' = [threads EXCEPT ![runs[r].thread].interrupt = 0]
        /\ UNCHANGED <<runVars, store, storeWrites, calls, clients>>

InitIngest ==
    /\ InitRun
    /\ calls = <<>>
    /\ clients = <<>>
    /\ store = [ns \in Namespaces |-> Absent]
    /\ storeWrites = <<>>
    /\ threads = [t \in ThreadIds |-> NoThread]
    /\ runs = <<>>

NextIngest ==
    \/ ingest_email_to_langgraph
    \/ run_execute
    \/ run_resume

SpecIngest == InitIngest /\ [][NextIngest]_vars

\* ================================================================ claims
\* the reviewable set named by the specification
ReviewableNames == {"send_email_tool", "schedule_meeting_tool", "Question"}

\* no decision is waiting to be processed by the node it was delivered to
DecisionsProcessed ==
    ~(node \in {"interrupt_handler", "triage_interrupt_handler"} /\ ~pending /\ resumes # <<>>)

\* the decisions the gate has acted on
Handled == { j \in DOMAIN reviewLog : j < Len(reviewLog) \/ DecisionsProcessed }

\* positions of execLog at which proposal id was invoked
ExecsOf(id) == { i \in DOMAIN execLog : execLog[i].id = id }

\* argument values proposal id was invoked with
ExecArgs(id) == { execLog[i].args : i \in ExecsOf(id) }

\* positions of storeWrites holding a merge made while handling proposal id
MergesOf(id) == { i \in DOMAIN storeWrites : storeWrites[i].op = "merge" /\ storeWrites[i].id = id }

\* C1: every invocation of a reviewable tool (send_email_tool,
\* schedule_meeting_tool, Question) for a call id was preceded by a review
\* decision of kind accept or edit for that call id.
C1_ExecutionNeedsApproval ==
    \A i \in DOMAIN execLog :
        execLog[i].name \in ReviewableNames =>
            \E j \in DOMAIN reviewLog :
                /\ reviewLog[j].id = execLog[i].id
                /\ reviewLog[j].type \in {"accept", "edit"}

C1_Witness ==
    \E i \in DOMAIN execLog, j \in DOMAIN reviewLog :
        /\ execLog[i].name = "send_email_tool"
        /\ reviewLog[j].id = execLog[i].id
        /\ reviewLog[j].type = "accept"

\* C2: over a whole run, with every suspend / resume of the gate, the
\* action of a proposal that was accepted or edited is invoked at most once.
C2_AcceptedExecutedAtMostOnce ==
    \A j \in DOMAIN reviewLog :
        reviewLog[j].type \in {"accept", "edit"} =>
            Cardinality(ExecsOf(reviewLog[j].id)) <= 1

\* C3: resuming continues from the suspended proposal: a non-reviewable
\* proposal executed earlier in the batch is not executed again, and a
\* merge-update triggered by an earlier decision is not made again.
C3_NoReplayOnResume ==
    /\ \A i \in DOMAIN execLog :
          execLog[i].name \notin ReviewableNames => Cardinality(ExecsOf(execLog[i].id)) = 1
    /\ \A j \in DOMAIN reviewLog :
          reviewLog[j].id # 0 => Cardinality(MergesOf(reviewLog[j].id)) <= 1

\* C4: for every reviewable proposal the outcome matches the decision:
\* accept invokes it with the proposed arguments, edit invokes it with the
\* edited arguments and never with the proposed ones, response and ignore
\* invoke nothing.
C4_OutcomeMatchesDecision ==
    \A j \in Handled :
        LET r == reviewLog[j]
        IN  r.id # 0 =>
               /\ r.type = "accept" => ExecArgs(r.id) = {r.proposed}
               /\ r.type = "edit" => ExecArgs(r.id) = {r.args}
               /\ r.type \in {"response", "ignore"} => ExecArgs(r.id) = {}

\* C4 (amended): as C4 for accept, response and ignore and for an edit of a
\* send or schedule proposal; an edit of a Question proposal invokes nothing
\* and the gate fails with an error.
C4_OutcomeMatchesDecisionAmended ==
    \A j \in Handled :
        LET r == reviewLog[j]
        IN  r.id # 0 =>
               /\ r.type = "accept" => ExecArgs(r.id) = {r.proposed}
               /\ (r.type = "edit" /\ r.action \in {"send_email_tool", "schedule_meeting_tool"})
                     => ExecArgs(r.id) = {r.args}
               /\ (r.type = "edit" /\ r.action = "Question")
                     => (ExecArgs(r.id) = {} /\ node = ERROR)
               /\ r.type \in {"response", "ignore"} => ExecArgs(r.id) = {}

C4_Witness ==
    \E j \in Handled :
        /\ reviewLog[j].type = "edit"
        /\ reviewLog[j].action = "send_email_tool"
        /\ reviewLog[j].args # reviewLog[j].proposed
        /\ ExecArgs(reviewLog[j].id) = {reviewLog[j].args}

\* C5: an edit of a send proposal yields exactly one merge, in the response
\* namespace; an edit of a schedule proposal yields exactly one merge, in
\* the calendar namespace; an accept yields no merge.
C5_EditMergesOnce ==
    \A j \in Handled :
        LET r == reviewLog[j]
            merges == MergesOf(r.id)
        IN  r.id # 0 =>
               /\ (r.type = "edit" /\ r.action = "send_email_tool") =>
                     /\ Cardinality(merges) = 1
                     /\ \A i \in merges : storeWrites[i].ns = RESPONSE
               /\ (r.type = "edit" /\ r.action = "schedule_meeting_tool") =>
                     /\ Cardinality(merges) = 1
                     /\ \A i \in merges : storeWrites[i].ns = CAL
               /\ r.type = "accept" => merges = {}

\* the decisions delivered for the batch under review
BatchHas(type) == \E i \in DOMAIN resumes : resumes[i].type = type

\* the proposals of the most recent assistant message
LastBatch ==
    LET ai == { i \in DOMAIN messages : messages[i].role = "ai" }
    IN  IF ai = {} THEN <<>>
        ELSE messages[CHOOSE i \in ai : \A k \in ai : k <= i].tool_calls

LastBatchIds == { LastBatch[i].id : i \in DOMAIN LastBatch }

\* a decision of the given kind was made on a proposal of the most recent batch
LastBatchDecided(type) ==
    \E j \in DOMAIN reviewLog : reviewLog[j].id \in LastBatchIds /\ reviewLog[j].type = type

\* C6: once an ignore decision was given on a proposal of a batch, the gate
\* never routes that batch to the agent: it stays suspended in the batch,
\* fails, or goes to terminal.
C6_IgnoreRoutesToTerminal ==
    [][(node = "interrupt_handler" /\ BatchHas("ignore"))
          => node' \in {"interrupt_handler", END, ERROR}]_vars

C6_Witness ==
    /\ node = END
    /\ LastBatchDecided("ignore")
    /\ LastBatchDecided("response")

\* C7: once a response decision was given on a proposal of a batch, the
\* gate never routes that batch to terminal, whatever the other decisions.
C7_RespondRoutesToAgent ==
    [][(node = "interrupt_handler" /\ BatchHas("response"))
          => node' \in {"interrupt_handler", "llm_call", ERROR}]_vars

\* C7 (amended): a batch with a response decision is routed to the agent
\* when no proposal of the batch was ignored, and to terminal when one was.
C7_RespondRoutesToAgentUnlessIgnored ==
    [][(node = "interrupt_handler" /\ BatchHas("response")
            /\ node' \notin {"interrupt_handler", ERROR})
          => node' = (IF BatchHas("ignore") THEN END ELSE "llm_call")]_vars

C7_Witness ==
    /\ node = "llm_call"
    /\ LastBatchDecided("response")
    /\ LastBatchDecided("accept")

\* C8: a run whose email is classified ignore reaches terminal with no tool
\* invoked and no write to the preference store.
C8_IgnoreClassificationNoEffects ==
    (classification = "ignore" /\ node = END) => (execLog = <<>> /\ storeWrites = <<>>)

\* C8 (amended): such a run invokes no tool and makes no merge-update; its
\* only store write is the default of the triage namespace, made when that
\* namespace held no record.
C8_IgnoreClassificationOnlyDefault ==
    (classification = "ignore" /\ node = END) =>
        /\ execLog = <<>>
        /\ Len(storeWrites) <= 1
        /\ \A i \in DOMAIN storeWrites :
              /\ storeWrites[i].op = "default"
              /\ storeWrites[i].ns = TRIAGE
              /\ storeWrites[i].old = Absent

C8_Witness ==
    /\ classification = "ignore"
    /\ node = END
    /\ Len(storeWrites) = 1

\* C9: a Done proposal is never put to review and its tool is never
\* invoked, at any position of a batch.
C9_DoneNeverReviewedNorInvoked ==
    /\ \A j \in DOMAIN reviewLog : reviewLog[j].action # "Done"
    /\ \A i \in DOMAIN execLog : execLog[i].name # "Done"

\* the proposals of the assistant message with id mid
BatchOf(mid) == messages[CHOOSE i \in DOMAIN messages : messages[i].mid = mid].tool_calls

\* C10: should_continue routes to mark-handled exactly when the assistant
\* message holds a Done proposal at some position; every other batch goes
\* to the review gate.
C10_DoneAnywhereRoutesToMarkHandled ==
    \A k \in DOMAIN routeLog :
        LET tcs == BatchOf(routeLog[k].mid)
            hasDone == \E i \in DOMAIN tcs : tcs[i].name = "Done"
        IN  /\ routeLog[k].route = "mark_as_read_node" <=> hasDone
            /\ routeLog[k].route = "interrupt_handler" <=> ~hasDone

\* C11: the classification of the conversation state is written at most
\* once per run, by the triage step; no later step changes it.
C11_ClassificationWrittenOnce ==
    [][classification' # classification
          => (node = "triage_router" /\ classification = "unset")]_vars

C11_Witness ==
    /\ classification = "notify"
    /\ node = "interrupt_handler"
    /\ \E j \in DOMAIN reviewLog : reviewLog[j].id = 0 /\ reviewLog[j].type = "response"

\* C12: in every terminal state of a run the classification is one of
\* respond, notify, ignore, never unset.
C12_TerminalHasClassification ==
    node = END => classification \in {"respond", "notify", "ignore"}

C12_Witness ==
    /\ node = END
    /\ routerResult = "ignore"
    /\ classification = "ignore"

\* C13: when the classifier returns a value outside respond / notify /
\* ignore the triage step fails: no classification is recorded, no message
\* is appended, no further node runs, no default classification is used.
C13_InvalidClassificationFails ==
    routerResult \notin {"none", "respond", "notify", "ignore"} =>
        /\ node = ERROR
        /\ classification = "unset"
        /\ messages = <<>>
        /\ steps = 0
        /\ execLog = <<>>
        /\ reviewLog = <<>>

C13_Witness ==
    /\ routerResult = "spam"
    /\ node = ERROR

\* C14: a tool-call-level decision whose kind is outside accept / edit /
\* response / ignore aborts the run with an error; the gate never skips the
\* proposal and goes on with the batch.
C14_UnknownDecisionAborts ==
    \A j \in Handled :
        (reviewLog[j].id # 0
            /\ reviewLog[j].type \notin {"accept", "edit", "response", "ignore"})
          => node = ERROR

\* C15: a decision the capability mask disallows (accept or edit on a
\* Question proposal, accept or edit at the notify-stage review) aborts the
\* run with an error and the action is not executed.
C15_DisallowedDecisionAborts ==
    \A j \in Handled :
        ((reviewLog[j].action = "Question" \/ reviewLog[j].id = 0)
            /\ reviewLog[j].type \in {"accept", "edit"})
          => (node = ERROR /\ ExecsOf(reviewLog[j].id) = {})

\* C16: an email classified notify and reviewed with ignore at the notify
\* stage terminates with the triage record merge-updated, with nothing
\* executed and without an agent step.
C16_NotifyIgnoredTerminates ==
    (\E j \in Handled : reviewLog[j].id = 0 /\ reviewLog[j].type = "ignore") =>
        /\ node = END
        /\ classification = "notify"
        /\ store[TRIAGE] = Merged
        /\ Cardinality(MergesOf(0)) = 1
        /\ \A i \in MergesOf(0) : storeWrites[i].ns = TRIAGE
        /\ execLog = <<>>
        /\ steps = 0

C16_Witness ==
    /\ node = END
    /\ routerResult = "notify"
    /\ \E j \in DOMAIN reviewLog : reviewLog[j].id = 0 /\ reviewLog[j].type = "ignore"

\* the calls of update_memory on namespace ns among the first k store calls
UpdatesBefore(ns, k) == { i \in 1..k : calls[i].op = "update" /\ calls[i].ns = ns }

\* C17 (SpecMem): get_memory is idempotent: the first call for a namespace
\* stores and returns its default; every later call for the namespace, with
\* any default, returns the value the first call stored and leaves the
\* stored value as it is (as long as no update_memory rewrote the profile).
C17_GetMemoryIdempotent ==
    \A i \in DOMAIN calls, j \in DOMAIN calls :
        (/\ i <= j
         /\ calls[i].op = "get" /\ calls[j].op = "get" /\ calls[i].ns = calls[j].ns
         /\ calls[i].before = Absent
         /\ UpdatesBefore(calls[j].ns, j) = {})
        => /\ calls[i].after = calls[i].arg
           /\ calls[i].ret = calls[i].arg
           /\ calls[j].ret = calls[i].arg
           /\ calls[j].after = calls[i].arg

C17_Witness ==
    \E i \in DOMAIN calls, j \in DOMAIN calls :
        /\ i < j
        /\ calls[i].op = "get" /\ calls[j].op = "get" /\ calls[i].ns = calls[j].ns
        /\ calls[i].before = Absent
        /\ calls[j].arg # calls[i].arg
        /\ calls[j].ret = calls[i].arg
        /\ store[calls[j].ns] = calls[i].arg

\* C18 (SpecMem): after the first access to a namespace, whatever calls of
\* get_memory and update_memory follow, its stored profile is not empty.
C18_ProfileNeverEmpty ==
    \A ns \in Namespaces :
        (\E i \in DOMAIN calls : calls[i].ns = ns) => store[ns] # ""

\* instance c is at the store.put of a call
AtPut(c) == c \in DOMAIN clients /\ clients[c].pc \in {"get_put", "update_put"}

\* C19 (SpecStore): under any interleaving of get_memory and update_memory
\* calls of different instances, every change of a stored profile is the
\* store.put of one call and leaves exactly the value that call wrote (its
\* default or its merge result), and every store.put leaves its value in
\* the store: the stored profile is always the complete value of the last
\* writer.
C19_LastWriteWins ==
    [][/\ \A ns \in Namespaces :
             store'[ns] # store[ns] =>
                 \E c \in Clients :
                     /\ AtPut(c) /\ clients[c].ns = ns
                     /\ clients'[c].pc = "idle"
                     /\ store'[ns] = clients[c].arg
       /\ \A c \in Clients :
             (AtPut(c) /\ clients'[c].pc = "idle") => store'[clients[c].ns] = clients[c].arg
      ]_vars

\* two instances raced on one namespace: a merge result was written and
\* then replaced by the default of a get_memory that had read before it
C19_Witness ==
    \E i \in DOMAIN storeWrites, j \in DOMAIN storeWrites :
        /\ i < j
        /\ storeWrites[i].ns = storeWrites[j].ns
        /\ storeWrites[i].op = "merge"
        /\ storeWrites[j].op = "default"
        /\ storeWrites[i].id # storeWrites[j].id
        /\ j = Len(storeWrites)
        /\ store[storeWrites[j].ns] = storeWrites[j].value

\* the workflow instance of run r is in flight or waits for its review
Live(r) == runs[r].status \in {"pending", "interrupted"}

\* run r is discarded, or loses its pending review, in the step
Discarded(r) ==
    /\ Live(r)
    /\ \/ runs'[r].status \in {"deleted", "rolled_back"}
       \/ /\ threads[runs[r].thread].interrupt = r
          /\ threads'[runs[r].thread].interrupt # r
          /\ runs'[r].status # "success"

\* C20 (SpecIngest): instances of different envelopes are independent: no
\* step of the ingest job or of another envelope's run discards a live
\* instance or its pending review, also within one mail thread.
C20_InstancesIndependent ==
    [][\A r \in DOMAIN runs : ~Discarded(r)]_vars

\* run r2 is created or executed in the step
Started2(r2) ==
    \/ r2 \notin DOMAIN runs
    \/ runs[r2].status = "pending" /\ runs'[r2].status \in {"interrupted", "success"}

\* C20 (amended): a live instance, or its pending review, is discarded only
\* by the ingest or the execution of a later envelope of the same mail
\* thread; envelopes of different mail threads never touch each other's
\* instance.
C20_InstancesIndependentAcrossThreads ==
    [][\A r \in DOMAIN runs :
          Discarded(r) =>
              \E r2 \in DOMAIN runs' :
                  /\ r2 > r
                  /\ Started2(r2)
                  /\ runs'[r2].gmail_thread = runs[r].gmail_thread
      ]_vars

\* two envelopes of different mail threads, the earlier one still waiting
\* for its review after the later one was ingested and run
C20_Witness ==
    \E r1 \in DOMAIN runs, r2 \in DOMAIN runs, r3 \in DOMAIN runs :
        /\ r1 < r2 /\ r1 < r3
        /\ runs[r1].gmail_thread # runs[r2].gmail_thread
        /\ runs[r1].status = "interrupted"
        /\ threads[runs[r1].thread].interrupt = r1
        /\ runs[r2].status = "success"
        /\ runs[r3].gmail_thread = runs[r2].gmail_thread
        /\ runs[r2].thread = runs[r3].thread
        /\ r2 < r3

\* the transitions the specification states, over the nodes of the code:
\* triage = triage_router, triage_review = triage_interrupt_handler,
\* agent = llm_call, review_gate = interrupt_handler,
\* mark_handled = mark_as_read_node, terminal = END
StatedTransitions ==
    { <<"triage_router", "triage_interrupt_handler">>, <<"triage_router", "llm_call">>,
      <<"triage_router", END>>,
      <<"triage_interrupt_handler", "llm_call">>, <<"triage_interrupt_handler", END>>,
      <<"llm_call", "interrupt_handler">>,
      <<"interrupt_handler", "llm_call">>, <<"interrupt_handler", "mark_as_read_node">>,
      <<"mark_as_read_node", END>> }

\* the transitions of the graph: the agent goes to mark_handled itself, the
\* review gate goes to the agent or to terminal
GraphTransitions ==
    { <<"triage_router", "triage_interrupt_handler">>, <<"triage_router", "llm_call">>,
      <<"triage_router", END>>,
      <<"triage_interrupt_handler", "llm_call">>, <<"triage_interrupt_handler", END>>,
      <<"llm_call", "interrupt_handler">>, <<"llm_call", "mark_as_read_node">>,
      <<"interrupt_handler", "llm_call">>, <<"interrupt_handler", END>>,
      <<"mark_as_read_node", END>> }

\* no tool is invoked, no profile written, no message marked in the step
NoSideEffect == UNCHANGED <<execLog, storeWrites, store, markCount>>

\* C21: every transition of a run that does not abort is one of the stated
\* ones (triage to triage_review, agent or terminal; triage_review to agent
\* or terminal; agent to review_gate; review_gate to agent or mark_handled;
\* mark_handled to terminal), and from terminal on nothing is executed,
\* written or marked.
C21_TransitionsAsStated ==
    [][/\ (node' # node /\ node' # ERROR) => <<node, node'>> \in StatedTransitions
       /\ node = END => (node' = END /\ NoSideEffect)]_vars

\* C21 (amended): the transitions are triage to triage_review, agent or
\* terminal; triage_review to agent or terminal; agent to review_gate or
\* mark_handled; review_gate to agent or terminal; mark_handled to terminal;
\* from terminal on nothing is executed, written or marked.
C21_TransitionsOfGraph ==
    [][/\ (node' # node /\ node' # ERROR) => <<node, node'>> \in GraphTransitions
       /\ node = END => (node' = END /\ NoSideEffect)]_vars

\* a run that went through the gate, back to the agent, to mark_handled and
\* to terminal
C21_Witness ==
    /\ node = END
    /\ markCount = 1
    /\ reviewLog # <<>>
    /\ execLog # <<>>
    /\ steps = 2

\* the proposals of the most recent batch with a send or schedule execution
\* that failed at the provider
FailedInBatch ==
    { execLog[i].id : i \in { k \in DOMAIN execLog :
          /\ ~execLog[k].ok
          /\ execLog[k].name \in {"send_email_tool", "schedule_meeting_tool"}
          /\ execLog[k].id \in LastBatchIds } }

\* the gate finishes its batch in the step, without an error
GateCompletes == node = "interrupt_handler" /\ ~pending /\ ~pending' /\ node' # ERROR

\* C22 (SpecProvider): when the gate finishes a batch in which an accepted
\* or edited send or schedule action failed at the provider, the
\* conversation holds a tool-result message reporting the failure for that
\* call id and the next node is the agent.
C22_ProviderFailureCaptured ==
    [][(GateCompletes /\ FailedInBatch' # {}) =>
          /\ node' = "llm_call"
          /\ \A id \in FailedInBatch' :
                \E i \in DOMAIN messages' :
                    /\ messages'[i].role = "tool"
                    /\ messages'[i].tool_call_id = id
                    /\ messages'[i].content = "failed"]_vars

\* the namespaces the (decision, action) pair of review r implies
ImpliedNamespaces(r) ==
    IF r.type = "response" /\ r.action = "send_email_tool" THEN {RESPONSE}
    ELSE IF r.type = "response" /\ r.action = "schedule_meeting_tool" THEN {CAL}
    ELSE IF r.type = "ignore" /\ r.action \in ReviewableNames THEN {TRIAGE}
    ELSE {}

\* C23: every merge-update made for a proposal on which a response or
\* ignore decision was given is in the namespace the (decision, action)
\* pair implies: response on send only response, response on schedule only
\* calendar, response on Question none, ignore only triage; no other
\* namespace is written for it.
C23_DecisionWritesOnlyImplied ==
    \A j \in Handled :
        (reviewLog[j].id # 0 /\ reviewLog[j].type \in {"response", "ignore"}) =>
            /\ \A i \in DOMAIN storeWrites :
                  storeWrites[i].id = reviewLog[j].id =>
                      storeWrites[i].ns \in ImpliedNamespaces(reviewLog[j])
            /\ (node # ERROR /\ ImpliedNamespaces(reviewLog[j]) # {}) =>
                  MergesOf(reviewLog[j].id) # {}

\* a response on a schedule proposal and an ignore on a send proposal, each
\* with its merge-update
C23_Witness ==
    \E j1 \in Handled, j2 \in Handled :
        /\ reviewLog[j1].type = "response" /\ reviewLog[j1].action = "schedule_meeting_tool"
        /\ reviewLog[j2].type = "ignore" /\ reviewLog[j2].action = "send_email_tool"
        /\ \E i \in MergesOf(reviewLog[j1].id) : storeWrites[i].ns = CAL
        /\ \E i \in MergesOf(reviewLog[j2].id) : storeWrites[i].ns = TRIAGE

\* the positions <<message, proposal>> of the proposals the conversation holds
ProposalsHeld ==
    { p \in (DOMAIN messages) \X (1..MaxBatch) : p[2] \in DOMAIN messages[p[1]].tool_calls }

\* the positions at which the conversation holds the proposal with call id
HeldAt(id) == { p \in ProposalsHeld : messages[p[1]].tool_calls[p[2]].id = id }

\* C24: when the gate has finished a batch without error, the assistant
\* message holds every reviewed proposal once under its call id, with the
\* edited arguments if it was edited and with the proposed arguments if not.
C24_EditedArgumentsKept ==
    node \notin {"interrupt_handler", ERROR} =>
        \A j \in DOMAIN reviewLog :
            reviewLog[j].id # 0 =>
                /\ Cardinality(HeldAt(reviewLog[j].id)) = 1
                /\ \A p \in HeldAt(reviewLog[j].id) :
                      messages[p[1]].tool_calls[p[2]].args =
                          (IF reviewLog[j].type = "edit" THEN reviewLog[j].args
                           ELSE reviewLog[j].proposed)

\* the positions of the tool-result messages of the conversation
ToolResults == { i \in DOMAIN messages : messages[i].role = "tool" }

\* the gate has finished the batch of assistant message mid
BatchFinished(mid) == mid < steps \/ node \notin {"interrupt_handler", ERROR}

\* C25: the proposals of a batch routed to the gate are processed in the
\* order received: review requests are made in batch order, no proposal is
\* executed before an earlier proposal of the batch was, tool-result
\* messages stand in batch order, and when the gate has finished the batch
\* every reviewable proposal of it was put to review and every other
\* proposal was executed.
C25_BatchProcessedInOrder ==
    /\ \A i \in DOMAIN reviewLog, j \in DOMAIN reviewLog :
          (i < j /\ reviewLog[i].id # 0) => reviewLog[i].id < reviewLog[j].id
    /\ \A i \in DOMAIN execLog, j \in DOMAIN execLog :
          (i < j /\ execLog[j].id < execLog[i].id) =>
              \E k \in 1..(i - 1) : execLog[k].id = execLog[j].id
    /\ \A i \in ToolResults, j \in ToolResults :
          i < j => messages[i].tool_call_id < messages[j].tool_call_id
    /\ \A r \in DOMAIN routeLog :
          (routeLog[r].route = "interrupt_handler" /\ BatchFinished(routeLog[r].mid)) =>
              LET tcs == BatchOf(routeLog[r].mid)
              IN  \A k \in DOMAIN tcs :
                      IF tcs[k].name \in ReviewableNames
                      THEN \E j \in DOMAIN reviewLog : reviewLog[j].id = tcs[k].id
                      ELSE ExecsOf(tcs[k].id) # {}

\* a batch of a calendar check and a meeting proposal, both executed, the
\* second after its review
C25_Witness ==
    /\ node = "llm_call"
    /\ Len(LastBatch) = 2
    /\ LastBatch[1].name = "check_calendar_tool"
    /\ LastBatch[2].name = "schedule_meeting_tool"
    /\ ExecsOf(LastBatch[1].id) # {}
    /\ ExecsOf(LastBatch[2].id) # {}
    /\ Cardinality(ToolResults) = 2

\* C26: once a proposal was ignored, no later proposal of the batch is put
\* to review and none is executed.
C26_NothingAfterIgnore ==
    \A j \in DOMAIN reviewLog :
        (reviewLog[j].id # 0 /\ reviewLog[j].type = "ignore") =>
            /\ ~(pending /\ request.id > reviewLog[j].id)
            /\ \A k \in DOMAIN reviewLog : reviewLog[k].id <= reviewLog[j].id
            /\ \A i \in DOMAIN execLog : execLog[i].id <= reviewLog[j].id

\* C27 (SpecStore): once update_memory has written a merged profile to a
\* namespace, the namespace never holds a caller default again.
C27_DefaultNeverOverMerge ==
    \A ns \in Namespaces :
        (\E i \in DOMAIN storeWrites : storeWrites[i].ns = ns /\ storeWrites[i].op = "merge")
            => store[ns] \notin CallerDefaults

\* the tool-result messages of the conversation that carry call id
ToolResultsOf(id) == { i \in ToolResults : messages[i].tool_call_id = id }

\* every decision given on a proposal of the batch tcs is of a known kind
KnownDecisions(tcs) ==
    \A j \in DOMAIN reviewLog :
        (\E k \in DOMAIN tcs : tcs[k].id = reviewLog[j].id) =>
            reviewLog[j].type \in {"accept", "edit", "response", "ignore"}

\* C28: when the gate has finished a batch without error, under any
\* decisions of kind accept, edit, response and ignore, the conversation
\* holds exactly one tool-result message for each proposal of the batch,
\* with the proposal's call id, and none for any other call id.
C28_OneResultPerProposal ==
    /\ \A r \in DOMAIN routeLog :
          (/\ routeLog[r].route = "interrupt_handler"
           /\ BatchFinished(routeLog[r].mid)
           /\ KnownDecisions(BatchOf(routeLog[r].mid)))
          => \A k \in DOMAIN BatchOf(routeLog[r].mid) :
                Cardinality(ToolResultsOf(BatchOf(routeLog[r].mid)[k].id)) = 1
    /\ \A i \in ToolResults : HeldAt(messages[i].tool_call_id) # {}

\* a finished batch with an edited and an ignored proposal
C28_Witness ==
    /\ node = END
    /\ Len(LastBatch) = 2
    /\ LastBatchDecided("edit")
    /\ LastBatchDecided("ignore")
    /\ \A k \in DOMAIN LastBatch : Cardinality(ToolResultsOf(LastBatch[k].id)) = 1

\* C29: the source message is marked handled at most once in a run, and
\* only after should_continue routed a batch holding a Done proposal to
\* mark-handled; a run that ended by an ignore classification, by an ignore
\* at the notify stage or by an ignore of a proposal has not marked it.
C29_MarkedOnlyAfterDone ==
    /\ markCount <= 1
    /\ markCount = 1 =>
          /\ routeLog # <<>>
          /\ Last(routeLog).route = "mark_as_read_node"
          /\ \E k \in DOMAIN BatchOf(Last(routeLog).mid) :
                BatchOf(Last(routeLog).mid)[k].name = "Done"
    /\ (node = END
            /\ \/ classification = "ignore"
               \/ \E j \in DOMAIN reviewLog : reviewLog[j].type = "ignore")
          => markCount = 0

\* a run marked handled after a batch that starts with Done
C29_Witness ==
    /\ node = END
    /\ markCount = 1
    /\ steps = 1
    /\ LastBatch[1].name = "Done"

\* the decisions the configuration of the request allows: response and
\* ignore at the notify stage and on a Question, all four on send and
\* schedule proposals
AllowedDecision(r) ==
    IF r.id = 0 \/ r.action = "Question"
    THEN r.type \in {"response", "ignore"}
    ELSE r.type \in {"accept", "edit", "response", "ignore"}

\* every decision given so far was an allowed one
AllowedSoFar == \A j \in DOMAIN reviewLog : AllowedDecision(reviewLog[j])

\* the agent has emitted a batch whose first proposal is Done
DoneFirstEmitted == \E r \in DOMAIN routeLog : routeLog[r].first = "Done"

\* the step delivers a decision and does nothing else
OnlyDecisionDelivered ==
    /\ ~pending'
    /\ Len(resumes') = Len(resumes) + 1
    /\ UNCHANGED <<node, classification, messages, store, storeWrites, execLog, markCount,
                   steps, nextId, routeLog>>

\* C30 (FairSpec): a run in which the reviewer answers every request with
\* an allowed decision and the agent at some time emits a batch whose first
\* proposal is Done reaches terminal; and while a review request is pending
\* the only step of the run is the delivery of the decision.
C30_RunTerminates ==
    /\ (AllowedSoFar /\ DoneFirstEmitted) ~> (node = END \/ ~AllowedSoFar)
    /\ [][pending => OnlyDecisionDelivered]_vars

\* a run that got feedback from the reviewer, went back to the agent and
\* ended after Done
C30_Witness ==
    /\ node = END
    /\ markCount = 1
    /\ AllowedSoFar
    /\ DoneFirstEmitted
    /\ \E j \in DOMAIN reviewLog : reviewLog[j].id # 0 /\ reviewLog[j].type = "response"

====
